---- MODULE Spec2Model ----
(***************************************************************************)
(* Model of DesktopDuplicator (kacamata/native/desktop_duplication.cc):    *)
(* one capture session object, its five exported methods and destructor,   *)
(* and the part of the D3D11 / DXGI platform the methods talk to.          *)
(* Every action is one whole method call; the platform calls it issues are *)
(* recorded, in order, in `calls`.                                         *)
(***************************************************************************)
EXTENDS Integers, Sequences, FiniteSets

\* ------------------------------------------------------------------ bounds
MaxObjects == 8        \* platform objects the platform hands out in a run
MaxFrames == 2         \* successful captures in a run
NumOutputs == 2        \* outputs attached to the adapter

\* --------------------------------------------------------------- constants
Null == 0              \* an empty ComPtr

\* info[0] of initialize: absent or not a number, or an Int32.
OutputArgs ==
  {[isNumber |-> FALSE, value |-> 0]} \cup
  {[isNumber |-> TRUE, value |-> v] : v \in -1 .. NumOutputs}

\* Display modes GetDesc can report (Width, Height, Format, refresh rate):
\* two small ones, the largest surface D3D11 can hold, and one past it.
Modes ==
  { [Width |-> 4, Height |-> 3, Format |-> "B8G8R8A8", Num |-> 60, Den |-> 1],
    [Width |-> 8, Height |-> 2, Format |-> "R16G16B16A16", Num |-> 30, Den |-> 1],
    [Width |-> 16384, Height |-> 16384, Format |-> "R16G16B16A16", Num |-> 60, Den |-> 1],
    [Width |-> 32768, Height |-> 32768, Format |-> "B8G8R8A8", Num |-> 60, Den |-> 1] }

\* D3D11_REQ_TEXTURE2D_U_OR_V_DIMENSION (d3d11.h): CreateTexture2D refuses a
\* texture wider or higher than this.
MaxTextureDimension == 16384

BytesPerPixel(format) == IF format = "R16G16B16A16" THEN 8 ELSE 4

\* Row alignments a driver may use for the rows of a mapped staging texture.
RowAlignments == {4, 256}

\* The D3D11_TEXTURE2D_DESC of a texture that does not exist.
NoTexture == [Width |-> 0, Height |-> 0, Format |-> "UNKNOWN"]

\* HRESULTs AcquireNextFrame can return.
AcquireResults ==
  {"S_OK", "DXGI_ERROR_WAIT_TIMEOUT", "DXGI_ERROR_ACCESS_LOST", "DXGI_ERROR_INVALID_CALL"}

\* The platform call of Initialize that fails first, if reached.
InitFailures ==
  {"none", "D3D11CreateDevice", "QueryInterface(IDXGIDevice)", "GetAdapter",
   "EnumOutputs", "QueryInterface(IDXGIOutput1)", "DuplicateOutput", "CreateTexture2D"}

\* What a call through an empty ComPtr (undefined behaviour) can do.
NullCallOutcomes == {"crash", "fail"}

FAILED(hr) == hr \notin {"S_OK", "DXGI_ERROR_WAIT_TIMEOUT"}

Call(fn, hr) == [fn |-> fn, hr |-> hr]

VARIABLES
  device_, context_, duplication_, staging_texture_,  \* ComPtr members
  duplication_desc_, initialized_, frame_count_,      \* frame info members
  created,          \* platform: objects created so far (next id = created+1)
  frame_held,       \* platform: a frame is acquired and not yet released
  staging_data,     \* platform: frame last copied into the staging texture
  staging_desc,     \* platform: the desc the staging texture was created with
  mapped,           \* platform: the staging texture is mapped for reading
  out,              \* the object the last method returned, if it returned one
  life,             \* "alive", "destroyed" (destructor ran) or "crashed"
  op, ret, calls,   \* the last method called, what it returned, what it issued
  prev_op,          \* the method called before that
  lost_unreleased   \* ACCESS_LOST was seen and release has not run since

fields == <<device_, context_, duplication_, staging_texture_,
            duplication_desc_, initialized_, frame_count_>>
platform == <<created, frame_held, staging_data, staging_desc, mapped>>
vars == <<device_, context_, duplication_, staging_texture_,
          duplication_desc_, initialized_, frame_count_,
          created, frame_held, staging_data, staging_desc, mapped, out,
          life, op, ret, calls, prev_op, lost_unreleased>>

\* --------------------------------------------------------- platform helpers
RECURSIVE HeldAfter(_, _)
HeldAfter(held, cs) ==
  IF cs = <<>> THEN held
  ELSE LET c == Head(cs)
           h == IF c.fn = "AcquireNextFrame" /\ c.hr = "S_OK" THEN TRUE
                ELSE IF c.fn \in {"ReleaseFrame", "duplication_.Release"} THEN FALSE
                ELSE held
       IN HeldAfter(h, Tail(cs))

RECURSIVE MappedAfter(_, _)
MappedAfter(m, cs) ==
  IF cs = <<>> THEN m
  ELSE LET c == Head(cs)
           n == IF c.fn = "Map" /\ c.hr = "S_OK" THEN TRUE
                ELSE IF c.fn \in {"Unmap", "staging_texture_.Release"} THEN FALSE
                ELSE m
       IN MappedAfter(n, Tail(cs))

HasCall(cs, fn, hr) == \E i \in 1 .. Len(cs) : cs[i] = Call(fn, hr)
HasFn(cs, fn) == \E i \in 1 .. Len(cs) : cs[i].fn = fn

ReleaseFrameResult(held) == IF held THEN "S_OK" ELSE "DXGI_ERROR_INVALID_CALL"

\* CreateTexture2D creates only textures within the dimension limit.
CreateTexture2DAccepts(desc) ==
  desc.Width <= MaxTextureDimension /\ desc.Height <= MaxTextureDimension

\* D3D11_MAPPED_SUBRESOURCE.RowPitch of a texture: its row size rounded up.
RowPitch(desc, align) ==
  ((desc.Width * BytesPerPixel(desc.Format) + align - 1) \div align) * align

\* --------------------------------------------------- unsigned arithmetic
\* Numbers wider than 31 bits are little-endian sequences of base-256 digits.
Digit(n, i) == (n \div (256 ^ i)) % 256

RECURSIVE ColumnSum(_, _, _, _)
ColumnSum(a, b, k, i) ==
  IF i > 3 THEN 0
  ELSE (IF k - i \in 0 .. 3 THEN Digit(a, i) * Digit(b, k - i) ELSE 0)
       + ColumnSum(a, b, k, i + 1)

RECURSIVE ProductDigits(_, _, _, _)
ProductDigits(a, b, k, carry) ==
  IF k > 7 THEN <<>>
  ELSE LET t == ColumnSum(a, b, k, 0) + carry
       IN <<t % 256>> \o ProductDigits(a, b, k + 1, t \div 256)

\* The product of two 32-bit values, exact (eight digits).
Product(a, b) == ProductDigits(a, b, 0, 0)

\* UINT * UINT: the product modulo 2^32 (four digits).
MulUINT(a, b) == SubSeq(Product(a, b), 1, 4)

\* The conversion of a UINT to the 64-bit size_t.
ToSizeT(d) == d \o <<0, 0, 0, 0>>

\* What AcquireNextFrame may return: never a second frame while one is held.
AcquireOutcomes(held) ==
  IF held THEN {"DXGI_ERROR_INVALID_CALL", "DXGI_ERROR_ACCESS_LOST"}
  ELSE AcquireResults

\* --------------------------------------------------------------- Initialize
OutputIndex(arg) == IF arg.isNumber THEN arg.value ELSE 0

\* EnumOutputs takes a UINT: a negative int converts to a value of at least
\* 2^31, which is past every output.
EnumOutputsFails(output_index) == output_index < 0 \/ output_index >= NumOutputs

InitializeD3D11(fail) == fail # "D3D11CreateDevice"

\* How far CreateDuplication gets: 1 = returns false before DuplicateOutput,
\* 2 = DuplicateOutput fails, 3 = CreateTexture2D fails, 4 = returns true.
CreateDuplication(output_index, fail) ==
  IF fail \in {"QueryInterface(IDXGIDevice)", "GetAdapter"} THEN 1
  ELSE IF fail = "EnumOutputs" \/ EnumOutputsFails(output_index) THEN 1
  ELSE IF fail = "QueryInterface(IDXGIOutput1)" THEN 1
  ELSE IF fail = "DuplicateOutput" THEN 2
  ELSE IF fail = "CreateTexture2D" THEN 3
  ELSE 4

\* 0 = InitializeD3D11 fails, otherwise the stage CreateDuplication reaches.
InitializeStage(arg, fail) ==
  IF ~InitializeD3D11(fail) THEN 0 ELSE CreateDuplication(OutputIndex(arg), fail)

\* Variant: the early return is missing.
InitializeAlready_Never(init) == FALSE

\* Line 79: the early return of a session that is already initialized.
InitializeAlready(init) == init

\* ComPtr::operator& releases the interface the pointer holds.
AddressOf(ptr, name) == IF ptr # Null THEN <<Call(name \o ".Release", "S_OK")>> ELSE <<>>

InitializeD3D11Calls(fail, rtl) ==
  (IF rtl THEN AddressOf(context_, "context_") \o AddressOf(device_, "device_")
   ELSE AddressOf(device_, "device_") \o AddressOf(context_, "context_"))
  \o <<Call("D3D11CreateDevice", IF InitializeD3D11(fail) THEN "S_OK" ELSE "E_FAIL")>>

CreateDuplicationCalls(output_index, fail) ==
  LET stage == CreateDuplication(output_index, fail)
      hrOf(fn) == IF fail = fn THEN "E_FAIL" ELSE "S_OK"
      c1 == <<Call("QueryInterface(IDXGIDevice)", hrOf("QueryInterface(IDXGIDevice)"))>>
      c2 == <<Call("GetAdapter", hrOf("GetAdapter"))>>
      c3 == <<Call("EnumOutputs",
                   IF EnumOutputsFails(output_index) THEN "DXGI_ERROR_NOT_FOUND"
                   ELSE hrOf("EnumOutputs"))>>
      c4 == <<Call("QueryInterface(IDXGIOutput1)", hrOf("QueryInterface(IDXGIOutput1)"))>>
      c5 == AddressOf(duplication_, "duplication_")
            \o <<Call("DuplicateOutput", hrOf("DuplicateOutput"))>>
      c6 == <<Call("GetDesc", "S_OK")>> \o AddressOf(staging_texture_, "staging_texture_")
            \o <<Call("CreateTexture2D", hrOf("CreateTexture2D"))>>
  IN IF fail = "QueryInterface(IDXGIDevice)" THEN c1
     ELSE IF fail = "GetAdapter" THEN c1 \o c2
     ELSE IF stage = 1 /\ c3[1].hr # "S_OK" THEN c1 \o c2 \o c3
     ELSE IF stage = 1 THEN c1 \o c2 \o c3 \o c4
     ELSE IF stage = 2 THEN c1 \o c2 \o c3 \o c4 \o c5
     ELSE c1 \o c2 \o c3 \o c4 \o c5 \o c6

\* Variant: the result of CreateTexture2D is ignored.
InitializeSucceeds_IgnoreTexture(stage) == stage >= 3

\* Lines 88-98: initialized_ is set only when both helpers returned true.
InitializeSucceeds(stage) == stage = 4

\* Variant: the staging texture is created with width and height exchanged.
StagingDesc_Swapped(desc) ==
  [Width |-> desc.Height, Height |-> desc.Width, Format |-> desc.Format]

\* Lines 277-285: the staging texture takes the size and format of the mode.
StagingDesc(desc) ==
  [Width |-> desc.Width, Height |-> desc.Height, Format |-> desc.Format]

\* The value of `out` after a method that returns no object.
NoResult ==
  [width |-> 0, height |-> 0, pitch |-> 0, length |-> ToSizeT(<<0, 0, 0, 0>>),
   refreshRate |-> <<0, 0>>, frameCount |-> 0]

Initialize(arg, fail, mode, rtl) ==
  /\ life = "alive"
  /\ op' = "initialize" /\ prev_op' = op
  /\ out' = NoResult
  /\ UNCHANGED <<frame_count_, life, lost_unreleased>>
  /\ IF InitializeAlready(initialized_)
     THEN /\ ret' = "true"
          /\ calls' = <<>>
          /\ UNCHANGED <<device_, context_, duplication_, staging_texture_,
                         duplication_desc_, initialized_, platform>>
     ELSE LET stage == InitializeStage(arg, fail)
              cs == InitializeD3D11Calls(fail, rtl) \o
                    (IF stage = 0 THEN <<>>
                     ELSE CreateDuplicationCalls(OutputIndex(arg), fail))
          IN /\ created + 4 <= MaxObjects
             /\ stage = 4 => CreateTexture2DAccepts(StagingDesc(mode))
             /\ calls' = cs
             /\ device_' = IF stage >= 1 THEN created + 1 ELSE Null
             /\ context_' = IF stage >= 1 THEN created + 2 ELSE Null
             /\ duplication_' = IF stage <= 1 THEN duplication_
                                ELSE IF stage = 2 THEN Null ELSE created + 3
             /\ duplication_desc_' = IF stage >= 3 THEN mode ELSE duplication_desc_
             /\ staging_texture_' = IF stage <= 2 THEN staging_texture_
                                    ELSE IF stage = 3 THEN Null ELSE created + 4
             /\ initialized_' = InitializeSucceeds(stage)
             /\ created' = created + (CASE stage = 0 -> 0 [] stage \in {1, 2} -> 2
                                        [] stage = 3 -> 3 [] OTHER -> 4)
             /\ frame_held' = HeldAfter(frame_held, cs)
             /\ staging_data' = IF stage >= 3 THEN 0 ELSE staging_data
             /\ staging_desc' = IF stage <= 2 THEN staging_desc
                                ELSE IF stage = 3 THEN NoTexture ELSE StagingDesc(mode)
             /\ mapped' = MappedAfter(mapped, cs)
             /\ ret' = IF stage = 0 THEN "throw:Failed to initialize D3D11"
                       ELSE IF ~InitializeSucceeds(stage)
                         THEN "throw:Failed to create desktop duplication"
                       ELSE "true"

\* ------------------------------------------------------------- CaptureFrame
\* Variant: the texture-query failure path returns without ReleaseFrame.
CaptureFrameCalls_NoReleaseOnQueryFailure(hr, qi, staging) ==
  <<Call("AcquireNextFrame", hr)>> \o
  (IF hr = "DXGI_ERROR_WAIT_TIMEOUT" \/ FAILED(hr) THEN <<>>
   ELSE IF ~qi
     THEN <<Call("QueryInterface(ID3D11Texture2D)", "E_NOINTERFACE")>>
     ELSE <<Call("QueryInterface(ID3D11Texture2D)", "S_OK")>> \o
          (IF staging # Null THEN <<Call("CopyResource", "S_OK")>> ELSE <<>>) \o
          <<Call("ReleaseFrame", "S_OK")>>)

\* Variant: the frame is released before it is copied.
CaptureFrameCalls_ReleaseBeforeCopy(hr, qi, staging) ==
  <<Call("AcquireNextFrame", hr)>> \o
  (IF hr = "DXGI_ERROR_WAIT_TIMEOUT" \/ FAILED(hr) THEN <<>>
   ELSE IF ~qi
     THEN <<Call("QueryInterface(ID3D11Texture2D)", "E_NOINTERFACE"),
            Call("ReleaseFrame", "S_OK")>>
     ELSE <<Call("QueryInterface(ID3D11Texture2D)", "S_OK"),
            Call("ReleaseFrame", "S_OK")>> \o
          (IF staging # Null THEN <<Call("CopyResource", "S_OK")>> ELSE <<>>))

\* Lines 121-155: the platform calls one CaptureFrame issues, in order.
\* hr is what AcquireNextFrame returns, qi whether the texture query succeeds.
CaptureFrameCalls(hr, qi, staging) ==
  <<Call("AcquireNextFrame", hr)>> \o
  (IF hr = "DXGI_ERROR_WAIT_TIMEOUT" \/ FAILED(hr) THEN <<>>
   ELSE IF ~qi
     THEN <<Call("QueryInterface(ID3D11Texture2D)", "E_NOINTERFACE"),
            Call("ReleaseFrame", "S_OK")>>
     ELSE <<Call("QueryInterface(ID3D11Texture2D)", "S_OK")>> \o
          (IF staging # Null THEN <<Call("CopyResource", "S_OK")>> ELSE <<>>) \o
          <<Call("ReleaseFrame", "S_OK")>>)

\* Variant: a timeout is reported as a captured frame.
CaptureFrameReturn_TimeoutTrue(hr, qi) ==
  IF hr = "DXGI_ERROR_WAIT_TIMEOUT" THEN "true"
  ELSE IF FAILED(hr) THEN "false"
  ELSE IF ~qi THEN "false"
  ELSE "true"

\* Lines 123, 132, 142, 155: the value CaptureFrame returns.
CaptureFrameReturn(hr, qi) ==
  IF hr = "DXGI_ERROR_WAIT_TIMEOUT" THEN "false"
  ELSE IF FAILED(hr) THEN "false"
  ELSE IF ~qi THEN "false"
  ELSE "true"

\* Line 153: frame_count_++ on the success path only (a uint64_t: the counts
\* a run reaches stay far below its wrap-around at 2^64).
CaptureFrameCount(hr, qi, count) ==
  IF CaptureFrameReturn(hr, qi) = "true" THEN count + 1 ELSE count

\* Variant: ACCESS_LOST does not clear initialized_.
CaptureFrameInitialized_Keep(hr) == TRUE

\* Variant: every failed acquisition clears initialized_.
CaptureFrameInitialized_AnyFailure(hr) == ~FAILED(hr)

\* Lines 128-131: only ACCESS_LOST clears initialized_.
CaptureFrameInitialized(hr) == hr # "DXGI_ERROR_ACCESS_LOST"

\* Variant: the guard is missing.
CaptureFrameRejects_Never(init) == FALSE

\* Lines 106-109: the guard that rejects a session that is not initialized.
CaptureFrameRejects(init) == ~init

\* A call through an empty ComPtr: duplication_ at line 115, or context_ at
\* line 148 on the path that copies.
CaptureFrameNullCall(hr, qi) ==
  \/ duplication_ = Null
  \/ (CaptureFrameReturn(hr, qi) = "true" /\ staging_texture_ # Null /\ context_ = Null)

\* ub: what a call through an empty ComPtr does ("crash", or "fail": the
\* call does nothing and the method returns false).
CaptureFrame(hr, qi, ub) ==
  /\ life = "alive"
  /\ op' = "captureFrame" /\ prev_op' = op
  /\ out' = NoResult
  /\ UNCHANGED <<device_, context_, duplication_, staging_texture_,
                 duplication_desc_, created, staging_desc>>
  /\ IF CaptureFrameRejects(initialized_)
     THEN /\ ret' = "throw:Not initialized"
          /\ calls' = <<>>
          /\ UNCHANGED <<initialized_, frame_count_, frame_held, staging_data,
                         mapped, lost_unreleased, life>>
     ELSE IF CaptureFrameNullCall(hr, qi)
     THEN /\ calls' = <<Call(IF duplication_ = Null THEN "AcquireNextFrame"
                              ELSE "CopyResource", "null pointer")>>
          /\ ret' = "false"
          /\ life' = IF ub = "crash" THEN "crashed" ELSE life
          /\ UNCHANGED <<initialized_, frame_count_, frame_held, staging_data,
                         mapped, lost_unreleased>>
     ELSE LET cs == CaptureFrameCalls(hr, qi, staging_texture_)
          IN /\ hr \in AcquireOutcomes(frame_held)
             /\ frame_count_ < MaxFrames
             /\ calls' = cs
             /\ ret' = CaptureFrameReturn(hr, qi)
             /\ initialized_' = CaptureFrameInitialized(hr)
             /\ frame_count_' = CaptureFrameCount(hr, qi, frame_count_)
             /\ frame_held' = HeldAfter(frame_held, cs)
             /\ staging_data' = IF HasFn(cs, "CopyResource") THEN frame_count_ + 1
                                ELSE staging_data
             /\ mapped' = MappedAfter(mapped, cs)
             /\ lost_unreleased' = (lost_unreleased \/ hr = "DXGI_ERROR_ACCESS_LOST")
             /\ UNCHANGED life

\* --------------------------------------------------------------- GetTexture
\* Variant: the size is computed from the width.
GetTextureDataSize_Width(desc, pitch) == ToSizeT(MulUINT(desc.Width, pitch))

\* Line 174: size_t data_size = Height * RowPitch, a UINT product.
GetTextureDataSize(desc, pitch) == ToSizeT(MulUINT(desc.Height, pitch))

\* Lines 184-188: the object GetTexture returns.
GetTextureResult(desc, pitch) ==
  [width |-> desc.Width, height |-> desc.Height, pitch |-> pitch,
   length |-> GetTextureDataSize(desc, pitch),
   refreshRate |-> <<0, 0>>, frameCount |-> 0]

\* Variant: the buffer stays mapped.
GetTextureCalls_NoUnmap(mapOK) ==
  IF ~mapOK THEN <<Call("Map", "E_FAIL")>> ELSE <<Call("Map", "S_OK")>>

\* Lines 167-181: the context calls GetTexture issues, in order.
GetTextureCalls(mapOK) ==
  IF ~mapOK THEN <<Call("Map", "E_FAIL")>>
  ELSE <<Call("Map", "S_OK"), Call("Unmap", "S_OK")>>

\* ub: what the call through a null context_ does when staging_texture_ is
\* held ("crash" or "fail": the Map call does not succeed).
\* copyOK: Napi::Buffer::Copy creates the buffer; when it does not, a
\* JavaScript exception is pending and the method still runs to its end.
GetTexture(mapOK, copyOK, align, ub) ==
  /\ life = "alive"
  /\ op' = "getTexture" /\ prev_op' = op
  /\ UNCHANGED <<fields, created, frame_held, staging_data, staging_desc,
                 lost_unreleased>>
  /\ IF staging_texture_ = Null
     THEN /\ ret' = "undefined" /\ calls' = <<>> /\ out' = NoResult
          /\ UNCHANGED <<life, mapped>>
     ELSE IF context_ = Null
     THEN /\ calls' = <<Call("Map", "null context_")>>
          /\ ret' = "undefined" /\ out' = NoResult
          /\ life' = IF ub = "crash" THEN "crashed" ELSE life
          /\ UNCHANGED mapped
     ELSE LET cs == GetTextureCalls(mapOK)
              pitch == RowPitch(staging_desc, align)
          IN /\ calls' = cs
             /\ mapped' = MappedAfter(mapped, cs)
             /\ ret' = IF ~mapOK THEN "undefined"
                       ELSE IF ~copyOK THEN "throw:Buffer::Copy"
                       ELSE "object"
             /\ out' = IF mapOK /\ copyOK THEN GetTextureResult(duplication_desc_, pitch)
                       ELSE NoResult
             /\ UNCHANGED life

\* ------------------------------------------------------------- GetFrameInfo
\* Lines 201-207: the object GetFrameInfo returns.
GetFrameInfoResult(desc, count) ==
  [width |-> desc.Width, height |-> desc.Height, pitch |-> 0,
   length |-> ToSizeT(<<0, 0, 0, 0>>),
   refreshRate |-> <<desc.Num, desc.Den>>, frameCount |-> count]

GetFrameInfo ==
  /\ life = "alive"
  /\ op' = "getFrameInfo" /\ prev_op' = op
  /\ calls' = <<>>
  /\ ret' = IF ~initialized_ THEN "undefined" ELSE "object"
  /\ out' = IF ~initialized_ THEN NoResult
            ELSE GetFrameInfoResult(duplication_desc_, frame_count_)
  /\ UNCHANGED <<fields, platform, life, lost_unreleased>>

\* ------------------------------------------------------------------ Release
\* Variant: the context is dropped before the duplication interface.
ReleaseCalls_ContextFirst(dev, ctx, dup, staging, held) ==
  (IF ctx # Null THEN <<Call("context_.Release", "S_OK")>> ELSE <<>>) \o
  (IF dup # Null
   THEN <<Call("ReleaseFrame", ReleaseFrameResult(held)), Call("duplication_.Release", "S_OK")>>
   ELSE <<>>) \o
  (IF staging # Null THEN <<Call("staging_texture_.Release", "S_OK")>> ELSE <<>>) \o
  (IF dev # Null THEN <<Call("device_.Release", "S_OK")>> ELSE <<>>)

\* Lines 214-220: the platform calls Release issues, in order.
ReleaseCalls(dev, ctx, dup, staging, held) ==
  (IF dup # Null
   THEN <<Call("ReleaseFrame", ReleaseFrameResult(held)), Call("duplication_.Release", "S_OK")>>
   ELSE <<>>) \o
  (IF staging # Null THEN <<Call("staging_texture_.Release", "S_OK")>> ELSE <<>>) \o
  (IF ctx # Null THEN <<Call("context_.Release", "S_OK")>> ELSE <<>>) \o
  (IF dev # Null THEN <<Call("device_.Release", "S_OK")>> ELSE <<>>)

\* Variant: staging_texture_ is not reset.
ReleasePointers_KeepStaging(dev, ctx, dup, staging) == <<Null, Null, Null, staging>>

\* Lines 216-220: the pointers after Release, <<device, context, duplication, staging>>.
ReleasePointers(dev, ctx, dup, staging) == <<Null, Null, Null, Null>>

\* Variant: the flag is set instead of cleared.
ReleaseInitialized_True(init) == TRUE

\* Line 221.
ReleaseInitialized(init) == FALSE

\* Variant: Release restarts the counter.
ReleaseCount_Reset(count) == 0

\* Release leaves frame_count_ alone.
ReleaseCount(count) == count

ReleaseBody ==
  LET cs == ReleaseCalls(device_, context_, duplication_, staging_texture_, frame_held)
      ps == ReleasePointers(device_, context_, duplication_, staging_texture_)
  IN /\ calls' = cs
     /\ device_' = ps[1] /\ context_' = ps[2]
     /\ duplication_' = ps[3] /\ staging_texture_' = ps[4]
     /\ initialized_' = ReleaseInitialized(initialized_)
     /\ frame_count_' = ReleaseCount(frame_count_)
     /\ frame_held' = HeldAfter(frame_held, cs)
     /\ staging_data' = IF ps[4] = Null THEN 0 ELSE staging_data
     /\ staging_desc' = IF ps[4] = Null THEN NoTexture ELSE staging_desc
     /\ mapped' = MappedAfter(mapped, cs)
     /\ ret' = "undefined"
     /\ out' = NoResult
     /\ lost_unreleased' = FALSE
     /\ UNCHANGED <<duplication_desc_, created>>

Release ==
  /\ life = "alive"
  /\ op' = "release" /\ prev_op' = op
  /\ ReleaseBody
  /\ UNCHANGED life

\* ~DesktopDuplicator: calls Release; the object is gone afterwards.
Destructor ==
  /\ life = "alive"
  /\ op' = "~DesktopDuplicator" /\ prev_op' = op
  /\ ReleaseBody
  /\ life' = "destroyed"

\* ------------------------------------------------------------ specification
Init ==
  /\ device_ = Null /\ context_ = Null
  /\ duplication_ = Null /\ staging_texture_ = Null
  /\ duplication_desc_ \in Modes      \* no initializer: any value
  /\ initialized_ = FALSE
  /\ frame_count_ = 0
  /\ created = 0 /\ frame_held = FALSE /\ staging_data = 0
  /\ staging_desc = NoTexture /\ mapped = FALSE /\ out = NoResult
  /\ life = "alive"
  /\ op = "constructor" /\ prev_op = "none" /\ ret = "undefined" /\ calls = <<>>
  /\ lost_unreleased = FALSE

\* Inputs are drawn only where the call reads them: no platform call fails
\* on a Ready session, the mode is read only when GetDesc is reached, and
\* the order of the two operator& of D3D11CreateDevice shows only when a
\* pointer is held.
InitializeCall ==
  \E arg \in OutputArgs, fail \in (IF initialized_ THEN {"none"} ELSE InitFailures) :
    \E mode \in (IF ~initialized_ /\ InitializeStage(arg, fail) >= 3
                 THEN Modes ELSE {duplication_desc_}),
       rtl \in (IF ~initialized_ /\ (device_ # Null \/ context_ # Null)
                THEN BOOLEAN ELSE {FALSE}) :
      Initialize(arg, fail, mode, rtl)
CaptureFrameCall ==
  \E hr \in AcquireResults :
    \E qi \in (IF hr = "S_OK" THEN BOOLEAN ELSE {TRUE}),
       ub \in (IF CaptureFrameNullCall(hr, TRUE) THEN NullCallOutcomes ELSE {"fail"}) :
      CaptureFrame(hr, qi, ub)
GetTextureCall ==
  \E mapOK \in BOOLEAN :
    \E copyOK \in (IF mapOK THEN BOOLEAN ELSE {TRUE}),
       align \in (IF mapOK /\ staging_texture_ # Null THEN RowAlignments ELSE {4}),
       ub \in (IF staging_texture_ # Null /\ context_ = Null
               THEN NullCallOutcomes ELSE {"fail"}) :
      GetTexture(mapOK, copyOK, align, ub)

Next ==
  \/ InitializeCall
  \/ CaptureFrameCall
  \/ GetTextureCall
  \/ GetFrameInfo
  \/ Release
  \/ Destructor

Spec == Init /\ [][Next]_vars

\* ------------------------------------------------------------------- claims
AllNull ==
  device_ = Null /\ context_ = Null /\ duplication_ = Null /\ staging_texture_ = Null

\* C1: no Acquired Frame Handle is outstanding when a call returns: every
\* successful AcquireNextFrame of a captureFrame call is followed by a
\* ReleaseFrame inside the same call, so no acquisition starts with a frame held.
C1_NoFrameOutstanding ==
  /\ ~frame_held
  /\ op = "captureFrame" =>
       \A i \in 1 .. Len(calls) :
         calls[i] = Call("AcquireNextFrame", "S_OK") =>
           \E j \in (i + 1) .. Len(calls) : calls[j].fn = "ReleaseFrame"

\* The texture-query failure path of captureFrame has run.
C1_Witness ==
  /\ op = "captureFrame"
  /\ HasCall(calls, "AcquireNextFrame", "S_OK")
  /\ HasCall(calls, "QueryInterface(ID3D11Texture2D)", "E_NOINTERFACE")
  /\ ~frame_held

\* C2: frameCount never decreases, and it changes only in a captureFrame
\* call that returns true.
C2_FrameCountMonotone ==
  [][/\ frame_count_' >= frame_count_
     /\ frame_count_' # frame_count_ => (op' = "captureFrame" /\ ret' = "true")]_vars

\* A count of captured frames has survived release and a later initialize.
C2_Witness ==
  frame_count_ > 0 /\ op = "initialize" /\ prev_op = "release" /\ initialized_

InitializeFailed == op = "initialize" /\ ret # "true"

\* C3: a failed initialize leaves the session holding no device, context,
\* duplication interface or readback buffer, and not Ready.
C3_FailedInitializeLeavesNothing ==
  InitializeFailed => (AllNull /\ ~initialized_)

Interrogations == {"captureFrame", "getTexture", "getFrameInfo"}

\* C4: a captureFrame whose acquisition fails with ACCESS_LOST returns false
\* and leaves Ready; while the session is not Ready, captureFrame, getTexture
\* and getFrameInfo keep it not Ready, getFrameInfo returns undefined and
\* captureFrame is rejected without any platform call.
C4_LostStaysLost ==
  [][/\ (op' = "captureFrame" /\ HasCall(calls', "AcquireNextFrame", "DXGI_ERROR_ACCESS_LOST"))
          => (ret' = "false" /\ ~initialized_')
     /\ (~initialized_ /\ op' \in Interrogations)
          => /\ ~initialized_'
             /\ op' = "getFrameInfo" => ret' = "undefined"
             /\ op' = "captureFrame" => (ret' = "throw:Not initialized" /\ calls' = <<>>)]_vars

\* captureFrame has been rejected on a session lost to ACCESS_LOST.
C4_Witness ==
  /\ lost_unreleased /\ ~initialized_
  /\ op = "captureFrame" /\ ret = "throw:Not initialized"
  /\ prev_op = "getFrameInfo"

\* C5 as stated: after a fatal acquisition error the session is Ready again
\* only if release has been called since.
C5_ReleaseBeforeReady == ~(initialized_ /\ lost_unreleased)

\* C5 as amended: the session becomes Ready only in an initialize call that
\* succeeds; no other call, and no failed initialize, makes it Ready.
C5_ReadyOnlyByInitialize ==
  [][(~initialized_ /\ initialized_') => (op' = "initialize" /\ ret' = "true")]_vars

\* A session lost to ACCESS_LOST is Ready again, by initialize alone.
C5_Witness ==
  initialized_ /\ lost_unreleased /\ op = "initialize" /\ ret = "true"

\* C6: captureFrame on a session that is not Ready fails with the
\* not-initialized error, issues no platform call and changes nothing.
C6_NotReadyCaptureIsNoop ==
  [][(op' = "captureFrame" /\ ~initialized_)
       => /\ ret' = "throw:Not initialized"
          /\ calls' = <<>>
          /\ UNCHANGED <<fields, platform, life>>]_vars

\* captureFrame has been rejected after a failed initialize that left the
\* device behind.
C6_Witness ==
  /\ op = "captureFrame" /\ ret = "throw:Not initialized" /\ calls = <<>>
  /\ prev_op = "initialize" /\ device_ # Null /\ ~initialized_

\* C7: release leaves all four handles null and the session not Ready, and
\* a release right after a release changes nothing.
C7_ReleaseIdempotent ==
  [][op' \in {"release", "~DesktopDuplicator"}
       => /\ AllNull' /\ ~initialized_'
          /\ op = "release" => UNCHANGED <<fields, platform>>]_vars

\* release has run twice in a row.
C7_Witness == op = "release" /\ prev_op = "release" /\ AllNull /\ ~initialized_

\* C8: initialize on a Ready session returns true, issues no platform call
\* and changes no handle, nor the descriptor, nor frameCount.
C8_InitializeIdempotent ==
  [][(op' = "initialize" /\ initialized_)
       => /\ ret' = "true"
          /\ calls' = <<>>
          /\ UNCHANGED <<fields, platform>>]_vars

\* initialize has been called on a session that has captured a frame.
C8_Witness ==
  /\ op = "initialize" /\ prev_op = "captureFrame" /\ calls = <<>>
  /\ initialized_ /\ frame_count_ > 0

CopiedThisCall ==
  /\ HasCall(calls, "AcquireNextFrame", "S_OK")
  /\ HasCall(calls, "QueryInterface(ID3D11Texture2D)", "S_OK")
  /\ HasCall(calls, "CopyResource", "S_OK")

\* C9: captureFrame returns true exactly when it acquired a frame, obtained
\* its texture and copied it into the readback buffer; otherwise it issues
\* no copy.
C9_TrueIffCopied ==
  op = "captureFrame" =>
    /\ ret = "true" <=> CopiedThisCall
    /\ ret # "true" => ~HasFn(calls, "CopyResource")

\* captureFrame has returned true and the buffer holds that frame.
C9_Witness ==
  op = "captureFrame" /\ ret = "true" /\ CopiedThisCall /\ staging_data = frame_count_

ReleaseRank(fn) ==
  CASE fn = "ReleaseFrame" -> 1
    [] fn = "duplication_.Release" -> 2
    [] fn = "staging_texture_.Release" -> 3
    [] fn = "context_.Release" -> 4
    [] fn = "device_.Release" -> 5
    [] OTHER -> 0

\* C10: release gives up the frame, the duplication interface, the readback
\* buffer, the context and the device in that order.
C10_TeardownOrder ==
  op \in {"release", "~DesktopDuplicator"} =>
    \A i, j \in 1 .. Len(calls) :
      i < j => (ReleaseRank(calls[i].fn) > 0 /\ ReleaseRank(calls[i].fn) < ReleaseRank(calls[j].fn))

\* release has torn down a session that held all four handles.
C10_Witness == op = "release" /\ Len(calls) = 5 /\ AllNull

\* C11: when getTexture returns a result, its width and height are those the
\* readback buffer was created with, and data.length is the exact product
\* of height and pitch (the 32-bit multiplication has not wrapped).
C11_TextureResult ==
  (op = "getTexture" /\ ret = "object") =>
    /\ out.width = staging_desc.Width
    /\ out.height = staging_desc.Height
    /\ out.length = Product(out.height, out.pitch)

\* getTexture has returned the largest surface: 16384 rows of 131072 bytes.
C11_Witness ==
  /\ op = "getTexture" /\ ret = "object"
  /\ out.height = MaxTextureDimension /\ out.pitch = 131072
  /\ out.length = <<0, 0, 0, 128, 0, 0, 0, 0>>

\* C12: the session holds the device and its context whenever it holds the
\* duplication interface or the readback buffer.
C12_ContextOutlivesChildren ==
  (duplication_ # Null \/ staging_texture_ # Null)
    => (device_ # Null /\ context_ # Null)

\* C13: a Ready session holds the device, the context, the duplication
\* interface and the readback buffer, so captureFrame never calls through
\* an empty pointer and every acquired frame is copied.
C13_ReadyHoldsAll ==
  /\ initialized_ =>
       (device_ # Null /\ context_ # Null /\ duplication_ # Null /\ staging_texture_ # Null)
  /\ op = "captureFrame" =>
       /\ \A i \in 1 .. Len(calls) : calls[i].hr # "null pointer"
       /\ HasCall(calls, "QueryInterface(ID3D11Texture2D)", "S_OK")
            => HasFn(calls, "CopyResource")

\* A Ready session has acquired and copied a frame.
C13_Witness ==
  /\ initialized_ /\ op = "captureFrame" /\ ret = "true"
  /\ HasFn(calls, "CopyResource")

\* C14: every ReleaseFrame is issued while a frame acquired by a preceding
\* successful AcquireNextFrame is outstanding (no frame is held when a
\* method is entered, so the frame is one acquired earlier in the call).
C14_ReleaseOnlyHeldFrame ==
  \A i \in 1 .. Len(calls) :
    calls[i].fn = "ReleaseFrame" => HeldAfter(FALSE, SubSeq(calls, 1, i - 1))

NoFrameResults == {"DXGI_ERROR_WAIT_TIMEOUT", "DXGI_ERROR_INVALID_CALL"}

\* C15: a captureFrame whose acquisition times out or fails with a code
\* other than ACCESS_LOST returns false, holds no frame and changes neither
\* the session state, the handles, the descriptor, the buffer nor frameCount.
C15_NoFrameIsNoop ==
  [][(op' = "captureFrame" /\ \E hr \in NoFrameResults : calls' = <<Call("AcquireNextFrame", hr)>>)
       => /\ ret' = "false"
          /\ ~frame_held'
          /\ initialized_'
          /\ UNCHANGED <<fields, platform>>]_vars

\* A transient failure has followed a capture and left its frame in the buffer.
C15_Witness ==
  /\ op = "captureFrame" /\ ret = "false"
  /\ calls = <<Call("AcquireNextFrame", "DXGI_ERROR_INVALID_CALL")>>
  /\ initialized_ /\ staging_data > 0 /\ staging_data = frame_count_

\* C16: the copy into the readback buffer is issued while the acquired frame
\* is held and before its ReleaseFrame; nothing is copied after the release.
C16_CopyBeforeRelease ==
  op = "captureFrame" =>
    /\ \A i \in 1 .. Len(calls) :
         calls[i].fn = "CopyResource" =>
           /\ HeldAfter(FALSE, SubSeq(calls, 1, i - 1))
           /\ \E j \in (i + 1) .. Len(calls) : calls[j].fn = "ReleaseFrame"
    /\ ret = "true" => HasFn(calls, "CopyResource")

\* captureFrame has acquired, copied and then released a frame.
C16_Witness ==
  /\ op = "captureFrame"
  /\ calls = <<Call("AcquireNextFrame", "S_OK"),
               Call("QueryInterface(ID3D11Texture2D)", "S_OK"),
               Call("CopyResource", "S_OK"), Call("ReleaseFrame", "S_OK")>>

BufferMatchesDescriptor ==
  staging_texture_ # Null =>
    /\ staging_desc.Width = duplication_desc_.Width
    /\ staging_desc.Height = duplication_desc_.Height
    /\ staging_desc.Format = duplication_desc_.Format

\* C17: a held readback buffer has the width, height and format of the
\* stored descriptor, and on a Ready session captureFrame, getTexture,
\* getFrameInfo and initialize change neither the descriptor nor the buffer.
C17_GeometryFixed ==
  [][/\ BufferMatchesDescriptor'
     /\ (initialized_ /\ op' \in Interrogations \cup {"initialize"})
          => UNCHANGED <<duplication_desc_, staging_desc, staging_texture_>>]_vars

\* A session created again after ACCESS_LOST, on another mode: the new
\* buffer follows the new descriptor.
C17_Witness ==
  /\ initialized_ /\ lost_unreleased /\ staging_texture_ > 4
  /\ staging_desc.Width = 8 /\ duplication_desc_.Width = 8

\* C18: the readback buffer is not mapped when a method returns: getTexture
\* unmaps after every successful Map, so no copy of captureFrame meets a
\* mapped buffer.
C18_NeverLeftMapped ==
  /\ ~mapped
  /\ \A i \in 1 .. Len(calls) :
       calls[i] = Call("Map", "S_OK") =>
         \E j \in (i + 1) .. Len(calls) : calls[j].fn = "Unmap"
  /\ op = "captureFrame" =>
       \A i \in 1 .. Len(calls) :
         calls[i].fn = "CopyResource" => ~MappedAfter(FALSE, SubSeq(calls, 1, i - 1))

\* getTexture has mapped the buffer, failed to create the result and unmapped.
C18_Witness ==
  /\ op = "getTexture" /\ ret = "throw:Buffer::Copy"
  /\ calls = <<Call("Map", "S_OK"), Call("Unmap", "S_OK")>> /\ ~mapped

====
